---------------------------- MODULE Spec2Model ----------------------------
(***************************************************************************)
(* Model of the Spotify-Wrapped Streamlit application: the upload page    *)
(* (src/pages/upload.py: process_files, add_audio_features, the buttons   *)
(* of main) and the analysis functions of the wrapped page                *)
(* (src/pages/wrapped.py: get_top_artists, get_top_songs,                 *)
(* create_daily_waveform, create_listening_clock,                         *)
(* analyze_listening_patterns, analyze_music_profile).                    *)
(*                                                                         *)
(* A DataFrame is [cols |-> set of column names, rows |-> sequence of     *)
(* rows], a row being a function from the column names to values.         *)
(* float64 values are exact fractions [n, d] (d > 0, lowest terms) plus   *)
(* the IEEE specials NaN, +inf, -inf (d = 0).                             *)
(***************************************************************************)
EXTENDS Integers, Sequences, FiniteSets, TLC

VARIABLES
    uploaded_files,        \* st.file_uploader: the sources, each with its read position
    processed_data,        \* st.session_state.processed_data / the df handed to a call
    audio_features_added,  \* st.session_state.audio_features_added
    ret,                   \* what the last call returned (or raised)
    messages,              \* st.error / st.warning / st.success of the last call
    np_random,             \* state of numpy's global generator (np.random)
    synth_log,             \* history: every (uri, feature vector) synthesized so far
    workers                \* script threads inside add_audio_features' loop body

vars == <<uploaded_files, processed_data, audio_features_added, ret, messages,
          np_random, synth_log, workers>>

-----------------------------------------------------------------------------
(* Bounds of the model *)

MaxFiles == 3
MaxRows == 3

-----------------------------------------------------------------------------
(* float64 arithmetic *)

Abs(x) == IF x < 0 THEN -x ELSE x

Sign(x) == IF x < 0 THEN -1 ELSE IF x > 0 THEN 1 ELSE 0

RECURSIVE GCD(_, _)
GCD(a, b) == IF b = 0 THEN a ELSE GCD(b, a % b)

Float(n, d) ==
    LET g == GCD(Abs(n), Abs(d))
        s == Sign(d)
    IN [n |-> (s * n) \div g, d |-> Abs(d) \div g]

NaN == [n |-> 0, d |-> 0]
Inf(s) == [n |-> s, d |-> 0]
Zero == [n |-> 0, d |-> 1]
IsFinite(x) == x.d > 0

FAdd(x, y) ==
    IF IsFinite(x) /\ IsFinite(y) THEN Float(x.n * y.d + y.n * x.d, x.d * y.d)
    ELSE IF x = NaN \/ y = NaN THEN NaN
    ELSE IF IsFinite(x) THEN y
    ELSE IF IsFinite(y) \/ x = y THEN x
    ELSE NaN

FMul(x, y) ==
    IF IsFinite(x) /\ IsFinite(y) THEN Float(x.n * y.n, x.d * y.d)
    ELSE IF x = NaN \/ y = NaN \/ x.n = 0 \/ y.n = 0 THEN NaN
    ELSE Inf(Sign(x.n) * Sign(y.n))

\* numpy float64 division: a zero divisor gives nan or +-inf (with a
\* RuntimeWarning), never an exception.
FDiv(x, y) ==
    IF x = NaN \/ y = NaN THEN NaN
    ELSE IF IsFinite(x) /\ IsFinite(y)
         THEN IF y.n = 0
              THEN (IF x.n = 0 THEN NaN ELSE Inf(Sign(x.n)))
              ELSE Float(x.n * y.d, x.d * y.n)
    ELSE IF IsFinite(x) THEN Zero
    ELSE IF IsFinite(y) THEN Inf(Sign(x.n) * (IF y.n < 0 THEN -1 ELSE 1))
    ELSE NaN

\* x > y on floats: False as soon as one side is NaN.
FGt(x, y) ==
    IF x = NaN \/ y = NaN THEN FALSE
    ELSE IF IsFinite(x) /\ IsFinite(y) THEN x.n * y.d > y.n * x.d
    ELSE IF IsFinite(x) THEN y.n < 0
    ELSE IF IsFinite(y) THEN x.n > 0
    ELSE x.n > y.n

RECURSIVE FSum(_)
FSum(s) == IF s = <<>> THEN Zero ELSE FAdd(FSum(SubSeq(s, 1, Len(s) - 1)), s[Len(s)])

-----------------------------------------------------------------------------
(* Python values of the raw records *)

Str(s) == [t |-> "str", v |-> s]
None == [t |-> "none", v |-> ""]

\* A track URI: a str (its UTF-8 bytes), None, or a non-string value.
Uri(bytes) == [t |-> "str", b |-> bytes]
NoUri == [t |-> "none", b |-> <<>>]
IntUri(k) == [t |-> "int", b |-> <<k>>]

\* A raw "ts" string: either an ISO instant or text that is no date.
RawTs(day, hour, minute) == [valid |-> TRUE, day |-> day, hour |-> hour, minute |-> minute]
BadTs == [valid |-> FALSE, day |-> 0, hour |-> 0, minute |-> 0]

Record(ts, ms, track, artist, uri) ==
    [ts |-> ts, ms_played |-> ms, master_metadata_track_name |-> track,
     master_metadata_album_artist_name |-> artist, spotify_track_uri |-> uri]

RawCols == {"ts", "ms_played", "master_metadata_track_name",
            "master_metadata_album_artist_name", "spotify_track_uri"}


NoDf == [cols |-> {}, rows |-> <<>>]

-----------------------------------------------------------------------------
(* The events and the sources the model uploads *)

UriX == Uri(<<120>>)
UriY == Uri(<<121>>)

\* The three events of the specification's example scenario.
EvA1 == Record(RawTs(1, 8, 15), 1000000, Str("Track X"), Str("Artist A"), UriX)
EvA2 == Record(RawTs(1, 8, 20), 500000, Str("Track X"), Str("Artist A"), UriX)
EvB == Record(RawTs(1, 23, 50), 2000000, Str("Track Y"), Str("Artist B"), UriY)
\* A podcast episode: no track, no artist, no track URI.
EvPod == Record(RawTs(2, 23, 50), 1000000, None, None, NoUri)
\* A track with the name of another artist's track.
EvB2 == Record(RawTs(2, 8, 15), 1500000, Str("Track X"), Str("Artist B"), UriY)
\* A skipped track (nothing played).
EvSkip == Record(RawTs(2, 8, 20), 0, Str("Track Y"), Str("Artist A"), UriX)
\* A record whose "ts" is no date.
EvBadTs == Record(BadTs, 500000, Str("Track Y"), Str("Artist B"), UriY)

File(name, json, data) == [name |-> name, json |-> json, data |-> data, pos |-> "start"]

Uploads ==
    { File("history_0.json", TRUE, <<EvA1, EvA2>>),
      File("history_1.json", TRUE, <<EvB>>),
      File("broken.json", FALSE, <<>>),
      File("empty.json", TRUE, <<>>),
      File("badts.json", TRUE, <<EvPod, EvBadTs>>) }

RECURSIVE SeqsUpTo(_, _)
SeqsUpTo(S, n) ==
    IF n = 0 THEN {<<>>}
    ELSE LET shorter == SeqsUpTo(S, n - 1)
         IN shorter \cup {Append(q, x) : q \in shorter, x \in S}

FileLists == SeqsUpTo(Uploads, MaxFiles) \ {<<>>}

-----------------------------------------------------------------------------
(* upload.py: process_files *)

\* json.load(file): reads the stream from its position to its end and parses
\* the text; the text of a stream already at its end is empty, which is no JSON.
JsonLoads(file) == file.json /\ file.pos = "start"

\* The loop of lines 33-39: the index of the first source json.load fails on
\* (0 when none) and all_data as extended up to there.
RECURSIVE LoadLoop(_, _, _)
LoadLoop(files, i, all_data) ==
    IF i > Len(files) THEN [failed |-> 0, all_data |-> all_data]
    ELSE IF ~JsonLoads(files[i]) THEN [failed |-> i, all_data |-> all_data]
    ELSE LoadLoop(files, i + 1, all_data \o files[i].data)

\* The streams after the loop: every source json.load was called on is at its end.
FilesRead(files) ==
    LET l == LoadLoop(files, 1, <<>>)
        last == IF l.failed = 0 THEN Len(files) ELSE l.failed
    IN [i \in 1..Len(files) |->
            IF i <= last THEN [files[i] EXCEPT !.pos = "end"] ELSE files[i]]

\* pd.to_datetime on one "ts" string.
ToDatetime(ts) == [date |-> ts.day, hour |-> ts.hour, minute |-> ts.minute]

\* df['ms_played'] / (1000 * 60)
MinutesPlayed(ms) == Float(ms, 1000 * 60)

\* Lines 45-49 on one record: the row of the DataFrame.
CanonicalRow(r) ==
    [c \in RawCols \cup {"minutes_played"} |->
        IF c = "ts" THEN ToDatetime(r.ts)
        ELSE IF c = "minutes_played" THEN MinutesPlayed(r.ms_played)
        ELSE r[c]]

DataFrame(all_data) ==
    [cols |-> RawCols \cup {"minutes_played"},
     rows |-> [i \in 1..Len(all_data) |-> CanonicalRow(all_data[i])]]

StError(text) == [fn |-> "st.error", text |-> text]

\* The skipping variant: a source that fails to parse is reported and skipped.
RECURSIVE LoadLoopSkipping(_, _, _)
LoadLoopSkipping(files, i, all_data) ==
    IF i > Len(files) THEN [failed |-> 0, all_data |-> all_data]
    ELSE IF ~JsonLoads(files[i]) THEN LoadLoopSkipping(files, i + 1, all_data)
    ELSE LoadLoopSkipping(files, i + 1, all_data \o files[i].data)

process_files_skipping(files) ==
    LET l == LoadLoopSkipping(files, 1, <<>>)
        bad == {i \in 1..Len(files) : ~JsonLoads(files[i])}
        msgs == IF bad = {} THEN <<>>
                ELSE <<StError(files[CHOOSE i \in bad : TRUE].name)>>
    IN  IF l.all_data = <<>>
        THEN [call |-> "process_files", kind |-> "none", df |-> NoDf,
              msgs |-> <<StError("No valid data found in uploaded files.")>>]
        ELSE IF \E i \in 1..Len(l.all_data) : ~l.all_data[i].ts.valid
        THEN [call |-> "process_files", kind |-> "raised", df |-> NoDf, msgs |-> msgs]
        ELSE [call |-> "process_files", kind |-> "table",
              df |-> DataFrame(l.all_data), msgs |-> msgs]

\* What process_files returns (kind "none": None; "table": the DataFrame) or
\* that it raised, with the messages it showed.
process_files(files) ==
    LET l == LoadLoop(files, 1, <<>>)
    IN  IF l.failed > 0
        THEN [call |-> "process_files", kind |-> "none", df |-> NoDf,
              msgs |-> <<StError(files[l.failed].name)>>]
        ELSE IF l.all_data = <<>>
        THEN [call |-> "process_files", kind |-> "none", df |-> NoDf,
              msgs |-> <<StError("No valid data found in uploaded files.")>>]
        ELSE IF \E i \in 1..Len(l.all_data) : ~l.all_data[i].ts.valid
        THEN \* pd.to_datetime raises; nothing in process_files or main catches it
             [call |-> "process_files", kind |-> "raised", df |-> NoDf, msgs |-> <<>>]
        ELSE [call |-> "process_files", kind |-> "table",
              df |-> DataFrame(l.all_data), msgs |-> <<>>]

NoCall == [call |-> "none"]

\* The user uploads sources; the page's script runs process_files on them
\* (upload.py main, lines 186-187).
ProcessFiles ==
    \E files \in FileLists :
        LET r == process_files(files)
        IN  /\ uploaded_files' = FilesRead(files)
            /\ ret' = r
            /\ messages' = r.msgs
            /\ UNCHANGED <<processed_data, audio_features_added, np_random,
                           synth_log, workers>>

InitIngest ==
    /\ uploaded_files = <<>>
    /\ processed_data = NoDf
    /\ audio_features_added = FALSE
    /\ ret = NoCall
    /\ messages = <<>>
    /\ np_random = 0
    /\ synth_log = {}
    /\ workers = <<>>

SpecIngest == InitIngest /\ [][ProcessFiles]_vars

-----------------------------------------------------------------------------
(* Claims about process_files *)

BadJson(i) == ~uploaded_files[i].json

HasBadTs(i) ==
    \E k \in 1..Len(uploaded_files[i].data) : ~uploaded_files[i].data[k].ts.valid

\* C8: when a record of a source has a timestamp that does not parse,
\* ingestion ends in the error outcome (None returned, an error shown) that
\* names the source holding that record, and no table is produced.
C8_BadTimestampNamesSource ==
    (ret.call = "process_files" /\ \E i \in 1..Len(uploaded_files) : HasBadTs(i))
    => /\ ret.kind = "none"
       /\ ret.df = NoDf
       /\ \E i \in 1..Len(uploaded_files) :
             HasBadTs(i) /\ StError(uploaded_files[i].name) \in
                               {messages[k] : k \in 1..Len(messages)}

-----------------------------------------------------------------------------
(* wrapped.py: get_top_artists, get_top_songs *)

MaxN == 3

ArtistCol == "master_metadata_album_artist_name"
TrackCol == "master_metadata_track_name"
UriCol == "spotify_track_uri"

\* A missing value (None / NaN) of a column.
IsNull(v) == v.t = "none"

Column(rows, col) == [i \in 1..Len(rows) |-> rows[i][col]]

\* Series.nunique(): the distinct values, missing ones not counted.
NUnique(rows, col) == Cardinality({rows[i][col] : i \in 1..Len(rows)} \ {None})

\* The variant that keeps the rows without a key as a group of their own.
GroupKeysKeepingNull(df, col) == {df.rows[i][col] : i \in 1..Len(df.rows)}

\* df.groupby(col): the group keys; rows whose key is missing are in no group
\* (dropna=True is the default).
GroupKeys(df, col) == {df.rows[i][col] : i \in 1..Len(df.rows)} \ {None}

ArtistKeys(df) == GroupKeys(df, ArtistCol)

\* .agg({'minutes_played': 'sum', 'master_metadata_track_name': 'nunique'})
\* for one artist.
ArtistGroup(df, artist) ==
    LET rows == SelectSeq(df.rows, LAMBDA r : r[ArtistCol] = artist)
    IN  [master_metadata_album_artist_name |-> artist,
         minutes_played |-> FSum(Column(rows, "minutes_played")),
         master_metadata_track_name |-> NUnique(rows, TrackCol)]

\* Orderings of the set of group rows G.
Orderings(G) ==
    {s \in [1..Cardinality(G) -> G] : \A i, j \in 1..Cardinality(G) : i # j => s[i] # s[j]}

\* The variant sorting in ascending order.
IsSortedAscending(s) ==
    \A i, j \in 1..Len(s) : i < j => ~FGt(s[i].minutes_played, s[j].minutes_played)

\* sort_values('minutes_played', ascending=False): no row is before a row with
\* more minutes. The default sort is not a stable one, so rows with equal
\* minutes may come in any order.
IsSortedDescending(s) ==
    \A i, j \in 1..Len(s) : i < j => ~FGt(s[j].minutes_played, s[i].minutes_played)

\* .head(n)
Head_n(s, n) == SubSeq(s, 1, IF n < Len(s) THEN n ELSE Len(s))

\* The tables get_top_artists(df, n) can return.
get_top_artists(df, n) ==
    LET G == {ArtistGroup(df, a) : a \in ArtistKeys(df)}
    IN  {Head_n(s, n) : s \in {o \in Orderings(G) : IsSortedDescending(o)}}

\* groupby([track, artist, uri]): the key triples; a row with a missing value
\* in any of the three columns is in no group.
SongKeys(df) ==
    {<<df.rows[i][TrackCol], df.rows[i][ArtistCol], df.rows[i][UriCol]>> :
        i \in {k \in 1..Len(df.rows) :
                  /\ ~IsNull(df.rows[k][TrackCol])
                  /\ ~IsNull(df.rows[k][ArtistCol])
                  /\ ~IsNull(df.rows[k][UriCol])}}

\* .agg({'minutes_played': 'sum', 'ts': 'count'}).reset_index() for one song.
SongGroup(df, key) ==
    LET rows == SelectSeq(df.rows, LAMBDA r :
                    <<r[TrackCol], r[ArtistCol], r[UriCol]>> = key)
    IN  [master_metadata_track_name |-> key[1],
         master_metadata_album_artist_name |-> key[2],
         spotify_track_uri |-> key[3],
         minutes_played |-> FSum(Column(rows, "minutes_played")),
         ts |-> Len(rows)]

\* The tables get_top_songs(df, n) can return.
get_top_songs(df, n) ==
    LET G == {SongGroup(df, k) : k \in SongKeys(df)}
    IN  {Head_n(s, n) : s \in {o \in Orderings(G) : IsSortedDescending(o)}}

\* The events of the tables the ranking functions are applied to.
Events == {EvA1, EvA2, EvB, EvPod, EvB2, EvSkip}

\* The table of the specification's example scenario.
ExampleTable == DataFrame(<<EvA1, EvA2, EvB>>)

TopTables == {DataFrame(d) : d \in SeqsUpTo(Events, MaxRows) \ {<<>>}}

GetTopArtists ==
    \E n \in 1..MaxN : \E rows \in get_top_artists(processed_data, n) :
        /\ ret' = [call |-> "get_top_artists", n |-> n, rows |-> rows]
        /\ UNCHANGED <<uploaded_files, processed_data, audio_features_added,
                       messages, np_random, synth_log, workers>>

GetTopSongs ==
    \E n \in 1..MaxN : \E rows \in get_top_songs(processed_data, n) :
        /\ ret' = [call |-> "get_top_songs", n |-> n, rows |-> rows]
        /\ UNCHANGED <<uploaded_files, processed_data, audio_features_added,
                       messages, np_random, synth_log, workers>>

InitTop ==
    /\ uploaded_files = <<>>
    /\ processed_data \in TopTables
    /\ audio_features_added = FALSE
    /\ ret = NoCall
    /\ messages = <<>>
    /\ np_random = 0
    /\ synth_log = {}
    /\ workers = <<>>

NextTop == GetTopArtists \/ GetTopSongs

SpecTop == InitTop /\ [][NextTop]_vars

-----------------------------------------------------------------------------
(* Claims about get_top_artists *)

TopArtistsOf(n) == ret.call = "get_top_artists" /\ ret.n = n

\* C3 as stated: on the example table get_top_artists(df, 1) is one row, for
\* Artist A, with 25.0 minutes.
C3_ExampleTopIsArtistA ==
    (processed_data = ExampleTable /\ TopArtistsOf(1))
    => /\ Len(ret.rows) = 1
       /\ ret.rows[1][ArtistCol] = Str("Artist A")
       /\ ret.rows[1].minutes_played = Float(25, 1)

\* C3 amended: on the example table get_top_artists(df, 1) is one row, for
\* Artist B, with 2,000,000/60000 minutes (about 33.33); Artist A, with
\* 1,500,000/60000 = 25.0 minutes, is the second row of get_top_artists(df, 2).
C3_ExampleTopIsArtistB ==
    /\ (processed_data = ExampleTable /\ TopArtistsOf(1))
       => /\ Len(ret.rows) = 1
          /\ ret.rows[1][ArtistCol] = Str("Artist B")
          /\ ret.rows[1].minutes_played = Float(2000000, 60000)
    /\ (processed_data = ExampleTable /\ TopArtistsOf(2))
       => /\ Len(ret.rows) = 2
          /\ ret.rows[1][ArtistCol] = Str("Artist B")
          /\ ret.rows[2][ArtistCol] = Str("Artist A")
          /\ ret.rows[2].minutes_played = Float(25, 1)

C3_Witness ==
    /\ processed_data = ExampleTable
    /\ TopArtistsOf(1)
    /\ ret.rows[1][ArtistCol] = Str("Artist B")

TotalMinutes(rows) == FSum(Column(rows, "minutes_played"))

NDistinctArtists == Cardinality(GroupKeys(processed_data, ArtistCol))

\* C6 as stated: when n covers every artist, the minutes of the rows of
\* get_top_artists(df, n) add up to the minutes of all rows of the table.
C6_TopArtistsConserveAllMinutes ==
    (ret.call = "get_top_artists" /\ ret.n >= NDistinctArtists)
    => TotalMinutes(ret.rows) = TotalMinutes(processed_data.rows)

\* C6 amended: when n covers every artist, the minutes of the rows of
\* get_top_artists(df, n) add up to the minutes of the rows of the table
\* whose artist name is present.
C6_TopArtistsConserveArtistMinutes ==
    (ret.call = "get_top_artists" /\ ret.n >= NDistinctArtists)
    => TotalMinutes(ret.rows) =
         TotalMinutes(SelectSeq(processed_data.rows, LAMBDA r : ~IsNull(r[ArtistCol])))

\* A table with two artists and a row without artist, ranked whole.
C6_Witness ==
    /\ ret.call = "get_top_artists"
    /\ NDistinctArtists = 2
    /\ ret.n >= 2
    /\ Len(ret.rows) = 2
    /\ \E i \in 1..Len(processed_data.rows) :
          /\ IsNull(processed_data.rows[i][ArtistCol])
          /\ processed_data.rows[i].minutes_played # Zero

-----------------------------------------------------------------------------
(* wrapped.py: analyze_listening_patterns *)

\* df['hour'] = df['ts'].dt.hour: the DataFrame passed in gets the column (it
\* is changed in place, no copy is made).
WithHour(df) ==
    [cols |-> df.cols \cup {"hour"},
     rows |-> [i \in 1..Len(df.rows) |->
                  [c \in df.cols \cup {"hour"} |->
                      IF c = "hour" THEN df.rows[i]["ts"].hour ELSE df.rows[i][c]]]]

RECURSIVE SortedSeq(_)
SortedSeq(S) ==
    IF S = {} THEN <<>>
    ELSE LET m == CHOOSE x \in S : \A y \in S : x <= y
         IN <<m>> \o SortedSeq(S \ {m})

\* df.groupby('hour')['minutes_played'].sum(): one entry per hour that has
\* events, in ascending order of the hour.
HourlyStats(df) ==
    LET hours == SortedSeq({df.rows[i]["hour"] : i \in 1..Len(df.rows)})
    IN  [k \in 1..Len(hours) |->
            [hour |-> hours[k],
             minutes_played |->
                FSum(Column(SelectSeq(df.rows, LAMBDA r : r["hour"] = hours[k]),
                            "minutes_played"))]]

\* time_blocks, in the order of the dict.
time_blocks ==
    << [block |-> "early_morning", start |-> 5, end |-> 8],
       [block |-> "work_hours", start |-> 9, end |-> 17],
       [block |-> "evening", start |-> 17, end |-> 22],
       [block |-> "late_night", start |-> 22, end |-> 5] >>

Blocks == {time_blocks[k].block : k \in 1..Len(time_blocks)}

Min(a, b) == IF a < b THEN a ELSE b

\* series[start:end] with integers on a Series: a slice by position (from
\* 0), whatever the labels of the index are.
SliceByPosition(s, start, end) == SubSeq(s, start + 1, Min(end, Len(s)))

\* Lines 319-322: the minutes of one block.
BlockMinutes(hourly_stats, b) ==
    IF b.start < b.end
    THEN FSum(Column(SliceByPosition(hourly_stats, b.start, b.end), "minutes_played"))
    ELSE FAdd(FSum(Column(SliceByPosition(hourly_stats, b.start, Len(hourly_stats)),
                          "minutes_played")),
              FSum(Column(SliceByPosition(hourly_stats, 0, b.end), "minutes_played")))

\* Series.idxmax(): the label of the first entry holding the maximum.
IdxMax(hourly_stats) ==
    LET k == CHOOSE i \in 1..Len(hourly_stats) :
                /\ \A j \in 1..Len(hourly_stats) :
                      ~FGt(hourly_stats[j].minutes_played, hourly_stats[i].minutes_played)
                /\ \A j \in 1..(i - 1) :
                      FGt(hourly_stats[i].minutes_played, hourly_stats[j].minutes_played)
    IN  hourly_stats[k].hour

\* max(block_percentages.items(), key=lambda x: x[1]): the first item that no
\* later item is greater than, a later item replacing the current one only
\* when it compares greater (never, against nan).
RECURSIVE MaxItem(_, _, _, _)
MaxItem(pct, k, best, n) ==
    IF k > n THEN best
    ELSE MaxItem(pct, k + 1,
                 IF FGt(pct[time_blocks[k].block], pct[best]) THEN time_blocks[k].block
                 ELSE best, n)

\* The number of sentences in each list of pattern_insights.
NInsights == 3

\* What analyze_listening_patterns computes, up to the sentence random.choice picks.
ListeningPatterns(df) ==
    LET hourly_stats == HourlyStats(df)
        total_minutes == FSum(Column(hourly_stats, "minutes_played"))
        block_minutes == [b \in Blocks |->
            BlockMinutes(hourly_stats,
                         time_blocks[CHOOSE k \in 1..Len(time_blocks) :
                                        time_blocks[k].block = b])]
        block_percentages == [b \in Blocks |->
            FMul(FDiv(block_minutes[b], total_minutes), Float(100, 1))]
    IN  [call |-> "analyze_listening_patterns",
         hourly_stats |-> hourly_stats,
         total_minutes |-> total_minutes,
         block_minutes |-> block_minutes,
         block_percentages |-> block_percentages,
         peak_hour |-> IdxMax(hourly_stats),
         max_block |-> MaxItem(block_percentages, 2, time_blocks[1].block,
                               Len(time_blocks))]

\* One event in the given hour of day 1.
EventAt(hour, ms) == Record(RawTs(1, hour, 0), ms, Str("Track X"), Str("Artist A"), UriX)

\* Hours of the day events are drawn from: hours at the bounds of the time
\* blocks and the hour between two blocks.
ClockHours == <<0, 4, 5, 7, 8, 9, 16, 17, 22>>

\* What an hour holds: no event, one skipped track, or two plays.
HourEvents == {<<>>, <<0>>, <<60000, 30000>>}

RECURSIVE DayRecords(_, _)
DayRecords(f, k) ==
    IF k > Len(ClockHours) THEN <<>>
    ELSE [i \in 1..Len(f[k]) |-> EventAt(ClockHours[k], f[k][i])] \o DayRecords(f, k + 1)

\* One play of a minute in every hour of the day.
FullDayTable == DataFrame([h \in 1..24 |-> EventAt(h - 1, 60000)])

PatternTables ==
    {DataFrame(DayRecords(f, 1)) : f \in [1..Len(ClockHours) -> HourEvents] \ {[k \in 1..Len(ClockHours) |-> <<>>]}}
    \cup {ExampleTable, FullDayTable}

AnalyzeListeningPatterns ==
    /\ \E choice \in 1..NInsights :
        LET df == WithHour(processed_data)
        IN  /\ processed_data' = df
            /\ ret' = [ListeningPatterns(df) EXCEPT !.call = "analyze_listening_patterns"]
                        @@ [insight |-> choice]
    /\ UNCHANGED <<uploaded_files, audio_features_added, messages, np_random,
                   synth_log, workers>>

InitPatterns ==
    /\ uploaded_files = <<>>
    /\ processed_data \in PatternTables
    /\ audio_features_added = FALSE
    /\ ret = NoCall
    /\ messages = <<>>
    /\ np_random = 0
    /\ synth_log = {}
    /\ workers = <<>>

SpecPatterns == InitPatterns /\ [][AnalyzeListeningPatterns]_vars

-----------------------------------------------------------------------------
(* Claims about analyze_listening_patterns *)

Analyzed == ret.call = "analyze_listening_patterns"

\* The minutes of the events of the table whose hour of day is in H.
MinutesInHours(H) ==
    TotalMinutes(SelectSeq(processed_data.rows, LAMBDA r : r["ts"].hour \in H))

PercentageSum ==
    FSum([k \in 1..Len(time_blocks) |-> ret.block_percentages[time_blocks[k].block]])

\* C1: when the total of minutes_played is not zero, the four percentages
\* add up to 100 within 0.01, whichever hours the events fall in.
C1_PercentagesSumTo100 ==
    (Analyzed /\ TotalMinutes(processed_data.rows) # Zero)
    => /\ IsFinite(PercentageSum)
       /\ 100 * Abs(PercentageSum.n - 100 * PercentageSum.d) <= PercentageSum.d

\* C2: the minutes of the late_night block are those of exactly the events
\* whose hour is in {22,23,0,1,2,3,4}, and the minutes of a block that does
\* not wrap are those of the events whose hour is in [start, end), also when
\* some hours of the day have no events.
C2_BlockMinutesByHour ==
    Analyzed
    => /\ ret.block_minutes["late_night"] = MinutesInHours({22, 23} \cup 0..4)
       /\ \A k \in 1..Len(time_blocks) :
             time_blocks[k].start < time_blocks[k].end
             => ret.block_minutes[time_blocks[k].block] =
                   MinutesInHours(time_blocks[k].start..(time_blocks[k].end - 1))

\* C9: when the total of minutes is exactly zero the call returns (it does
\* not raise) and every block's percentage is 0.
C9_ZeroTotalGivesZeroPercentages ==
    (Analyzed /\ TotalMinutes(processed_data.rows) = Zero)
    => \A b \in Blocks : ret.block_percentages[b] = Zero

-----------------------------------------------------------------------------
(* upload.py: add_audio_features *)

MaxSynthRows == 3
MaxOtherDraws == 2
\* The values random_sample() takes are k / RandomLevels, k in 0..RandomLevels-1.
RandomLevels == 10

\* A str that cannot be encoded as UTF-8 (it holds a lone surrogate).
BadStrUri(bytes) == [t |-> "badstr", b |-> bytes]

\* bool(uri)
Truthy(uri) ==
    \/ uri.t \in {"str", "badstr"} /\ uri.b # <<>>
    \/ uri.t = "int" /\ uri.b # <<0>>

\* isinstance(uri, str)
IsStr(uri) == uri.t \in {"str", "badstr"}

\* int.from_bytes(bytes, 'big') % (2**32), as the pair <<high, low>> of its
\* 16-bit halves; the reduction is taken byte by byte (Horner), which gives
\* the same number.
RECURSIVE FromBytesMod32(_, _)
FromBytesMod32(bytes, acc) ==
    IF bytes = <<>> THEN acc
    ELSE LET t == acc[2] * 256 + Head(bytes)
         IN  FromBytesMod32(Tail(bytes),
                            <<(acc[1] * 256 + t \div 65536) % 65536, t % 65536>>)

\* The variant with byteorder 'little'.
SeedOfLittleEndian(uri) ==
    FromBytesMod32([i \in 1..Len(uri.b) |-> uri.b[Len(uri.b) + 1 - i]], <<0, 0>>)

\* Line 71.
SeedOf(uri) == FromBytesMod32(uri.b, <<0, 0>>)

\* The state of a generator: the seed it was last seeded with and the number
\* of draws made since. A generator never seeded by the program holds a seed
\* taken from the operating system, which is no 32-bit seed.
Generator(seed, pos) == [seed |-> seed, pos |-> pos]
OsSeeds == {<<65536, 1>>, <<65536, 2>>}

\* The variant that seeds only a generator the program has not seeded yet.
NpRandomSeedOnce(state, seed) ==
    IF state.seed \in OsSeeds THEN Generator(seed, 0) ELSE state

\* np.random.seed(seed)
NpRandomSeed(state, seed) == Generator(seed, 0)

\* random_sample(): the next value in [0, 1) of the stream, a fixed function
\* of the seed and of the number of draws since seeding.
RandomSample(state) ==
    Float((state.seed[1] * 31 + state.seed[2] * 17
             + (state.pos + 1) * (state.pos + 7) * 13) % RandomLevels,
          RandomLevels)

Advance(state) == Generator(state.seed, state.pos + 1)

\* np.random.uniform(low, high) = low + (high - low) * random_sample()
Uniform(low, high, state) ==
    FAdd(low, FMul(FAdd(high, [n |-> -low.n, d |-> low.d]), RandomSample(state)))

\* The variant in which speechiness is drawn from the range of acousticness.
FeatureRangesWideSpeechiness ==
    << [name |-> "danceability", low |-> Float(2, 10), high |-> Float(9, 10)],
       [name |-> "energy", low |-> Float(1, 10), high |-> Float(10, 10)],
       [name |-> "valence", low |-> Float(1, 10), high |-> Float(9, 10)],
       [name |-> "tempo", low |-> Float(70, 1), high |-> Float(180, 1)],
       [name |-> "speechiness", low |-> Float(0, 1), high |-> Float(10, 10)],
       [name |-> "acousticness", low |-> Float(0, 1), high |-> Float(10, 10)],
       [name |-> "instrumentalness", low |-> Float(0, 1), high |-> Float(8, 10)] >>

\* Lines 77-83: the draws in their order, each with its range.
FeatureRanges ==
    << [name |-> "danceability", low |-> Float(2, 10), high |-> Float(9, 10)],
       [name |-> "energy", low |-> Float(1, 10), high |-> Float(10, 10)],
       [name |-> "valence", low |-> Float(1, 10), high |-> Float(9, 10)],
       [name |-> "tempo", low |-> Float(70, 1), high |-> Float(180, 1)],
       [name |-> "speechiness", low |-> Float(2, 100), high |-> Float(2, 10)],
       [name |-> "acousticness", low |-> Float(0, 1), high |-> Float(10, 10)],
       [name |-> "instrumentalness", low |-> Float(0, 1), high |-> Float(8, 10)] >>

FeatureNames == {FeatureRanges[k].name : k \in 1..Len(FeatureRanges)}

RECURSIVE AdvanceBy(_, _)
AdvanceBy(state, k) == IF k = 0 THEN state ELSE AdvanceBy(Advance(state), k - 1)

\* The k-th draw of the body, the generator being in `state` before the first.
Draw(state, k) ==
    Uniform(FeatureRanges[k].low, FeatureRanges[k].high, AdvanceBy(state, k - 1))

\* Lines 75-84: the feature dict, drawn from the generator in `state`.
Feature(uri, state) ==
    [c \in FeatureNames \cup {"uri"} |->
        IF c = "uri" THEN uri
        ELSE Draw(state, CHOOSE k \in 1..Len(FeatureRanges) : FeatureRanges[k].name = c)]

\* df[col].unique(): the distinct values in the order of their first row.
RECURSIVE Unique(_)
Unique(s) ==
    IF s = <<>> THEN <<>>
    ELSE LET u == Unique(SubSeq(s, 1, Len(s) - 1))
         IN  IF \E k \in 1..Len(u) : u[k] = s[Len(s)] THEN u ELSE Append(u, s[Len(s)])

StWarning(text) == [fn |-> "st.warning", text |-> text]
StSuccess(text) == [fn |-> "st.success", text |-> text]

\* The loop of lines 66-94 from its i-th pass on. `trace` notes, for each
\* feature appended, the pass and the generator's state before the seeding.
RECURSIVE SynthLoop(_, _, _)
SynthLoop(unique_tracks, i, acc) ==
    IF i > Len(unique_tracks) THEN acc
    ELSE LET uri == unique_tracks[i]
         IN  IF Truthy(uri) /\ IsStr(uri)
             THEN IF uri.t = "badstr"
                  THEN \* uri.encode() raises; the except clause warns and goes on
                       SynthLoop(unique_tracks, i + 1,
                           [acc EXCEPT !.msgs = Append(@, StWarning("Error processing track"))])
                  ELSE LET seeded == NpRandomSeed(acc.np_random, SeedOf(uri))
                       IN  SynthLoop(unique_tracks, i + 1,
                               [acc EXCEPT
                                  !.np_random = AdvanceBy(seeded, Len(FeatureRanges)),
                                  !.audio_features = Append(@, Feature(uri, seeded)),
                                  !.trace = Append(@, [uri |-> uri, i |-> i,
                                                       before |-> acc.np_random])])
             ELSE SynthLoop(unique_tracks, i + 1, acc)

\* The variant with how='inner': the rows without a feature are dropped.
MergeInner(df, audio_features) ==
    LET cols == df.cols \cup FeatureNames \cup {"uri"}
        Match(r) == {k \in 1..Len(audio_features) : audio_features[k]["uri"] = r[UriCol]}
        kept == SelectSeq(df.rows, LAMBDA r : Match(r) # {})
    IN  [cols |-> cols,
         rows |-> [i \in 1..Len(kept) |->
            [c \in cols |->
                IF c \in df.cols THEN kept[i][c]
                ELSE audio_features[CHOOSE k \in Match(kept[i]) : TRUE][c]]]]

\* df.merge(features_df[[...]], left_on='spotify_track_uri', right_on='uri',
\* how='left'): every row of df, in its order, with the columns of the
\* feature whose uri is the row's, or missing values when there is none.
Merge(df, audio_features) ==
    LET cols == df.cols \cup FeatureNames \cup {"uri"}
        Match(r) == {k \in 1..Len(audio_features) : audio_features[k]["uri"] = r[UriCol]}
    IN  [cols |-> cols,
         rows |-> [i \in 1..Len(df.rows) |->
            [c \in cols |->
                IF c \in df.cols THEN df.rows[i][c]
                ELSE IF Match(df.rows[i]) = {} THEN (IF c = "uri" THEN NoUri ELSE NaN)
                ELSE audio_features[CHOOSE k \in Match(df.rows[i]) : TRUE][c]]]]

\* add_audio_features(df) with the generator in state `rng`: the DataFrame
\* returned, the flag, the generator afterwards, the messages.
add_audio_features(df, flag, rng) ==
    IF UriCol \notin df.cols
    THEN [call |-> "add_audio_features", input |-> df, df |-> df, flag |-> flag,
          np_random |-> rng, audio_features |-> <<>>, trace |-> <<>>,
          msgs |-> <<StError("No track URIs found in the data. Cannot generate audio features.")>>]
    ELSE LET l == SynthLoop(Unique(Column(df.rows, UriCol)), 1,
                            [np_random |-> rng, audio_features |-> <<>>,
                             trace |-> <<>>, msgs |-> <<>>])
         IN  IF l.audio_features # <<>>
             THEN [call |-> "add_audio_features", input |-> df,
                   df |-> Merge(df, l.audio_features), flag |-> TRUE,
                   np_random |-> l.np_random, audio_features |-> l.audio_features,
                   trace |-> l.trace,
                   msgs |-> Append(l.msgs, StSuccess("Audio features generated successfully!"))]
             ELSE [call |-> "add_audio_features", input |-> df, df |-> df, flag |-> flag,
                   np_random |-> l.np_random, audio_features |-> <<>>,
                   trace |-> l.trace, msgs |-> l.msgs]

\* The track ids of the tables features are synthesized for: two tracks, an
\* empty id, no id, an id that is not a string, a string that does not encode.
UriValues == {UriX, UriY, Uri(<<>>), NoUri, IntUri(5), BadStrUri(<<237, 160>>)}

\* A play of a minute of the track with the given id.
EventOf(uri) == Record(RawTs(1, 8, 15), 60000, Str("Track X"), Str("Artist A"), uri)

SynthTables ==
    {DataFrame(d) : d \in SeqsUpTo({EventOf(u) : u \in UriValues}, MaxSynthRows) \ {<<>>}}

\* The "Add Audio Features" button (upload.py main, lines 207-209).
AddAudioFeatures ==
    /\ processed_data # NoDf
    /\ ~audio_features_added
    /\ LET r == add_audio_features(processed_data, audio_features_added, np_random)
       IN  /\ processed_data' = r.df
           /\ audio_features_added' = r.flag
           /\ np_random' = r.np_random
           /\ messages' = r.msgs
           /\ ret' = [r EXCEPT !.trace =
                        [k \in 1..Len(r.trace) |->
                            r.trace[k] @@
                            [again |-> \E e \in synth_log : e["uri"] = r.trace[k].uri]]]
           /\ synth_log' = synth_log \cup {r.audio_features[k] : k \in 1..Len(r.audio_features)}
    /\ UNCHANGED <<uploaded_files, workers>>

\* "Use different data" (wrapped.py main, lines 680-683).
\* The flag is set to None there, which every test of the flag takes as False.
UseDifferentData ==
    /\ processed_data # NoDf
    /\ processed_data' = NoDf
    /\ audio_features_added' = FALSE
    /\ ret' = NoCall
    /\ messages' = <<>>
    /\ UNCHANGED <<uploaded_files, np_random, synth_log, workers>>

\* Sources are uploaded and process_files makes their table (upload.py main,
\* lines 186-187).
LoadData ==
    /\ processed_data = NoDf
    /\ \E df \in SynthTables : processed_data' = df
    /\ UNCHANGED <<uploaded_files, audio_features_added, ret, messages, np_random,
                   synth_log, workers>>

\* Any other code of the process draws from numpy's global generator (at
\* most MaxOtherDraws times in a row).
OtherDraw ==
    /\ np_random.pos <
          (IF np_random.seed \in OsSeeds THEN 0 ELSE Len(FeatureRanges)) + MaxOtherDraws
    /\ np_random' = Advance(np_random)
    /\ UNCHANGED <<uploaded_files, processed_data, audio_features_added, ret,
                   messages, synth_log, workers>>

InitSynth ==
    /\ uploaded_files = <<>>
    /\ processed_data = NoDf
    /\ audio_features_added = FALSE
    /\ ret = NoCall
    /\ messages = <<>>
    /\ np_random \in {Generator(s, 0) : s \in OsSeeds}
    /\ synth_log = {}
    /\ workers = <<>>

NextSynth == LoadData \/ AddAudioFeatures \/ UseDifferentData \/ OtherDraw

SpecSynth == InitSynth /\ [][NextSynth]_vars

-----------------------------------------------------------------------------
(* Claims about add_audio_features *)

Synthesized == ret.call = "add_audio_features"

\* C4: the feature vector of a track id is a function of the id alone: all
\* vectors synthesized for an id, in whichever run, pass of the loop and
\* state of the generator, are the same vector, the one a generator freshly
\* seeded with the id's seed yields.
C4_VectorIsFunctionOfId ==
    /\ \A a, b \in synth_log : a["uri"] = b["uri"] => a = b
    /\ \A a \in synth_log : a = Feature(a["uri"], Generator(SeedOf(a["uri"]), 0))
    /\ Synthesized =>
          \A k \in 1..Len(ret.audio_features) : ret.audio_features[k] \in synth_log

\* An id is synthesized again, in a later pass of the loop, the generator
\* having been drawn from since it was last seeded.
C4_Witness ==
    /\ Synthesized
    /\ \E k \in 1..Len(ret.trace) :
          /\ ret.trace[k].again
          /\ ret.trace[k].i >= 2
          /\ ret.trace[k].before.pos > Len(FeatureRanges)

\* The unique ids of the table handed to add_audio_features.
InputIds == Unique(Column(ret.input.rows, UriCol))

\* An id that is present but empty or not a string.
EmptyOrNotStr(uri) == (uri.t = "str" /\ uri.b = <<>>) \/ uri.t = "int"

\* A non-empty string that encodes as UTF-8.
ValidId(uri) == uri.t = "str" /\ uri.b # <<>>

Warnings == SelectSeq(messages, LAMBDA m : m.fn = "st.warning")

\* The features hold one vector for each valid id, in the order of the ids,
\* and none for any other id.
VectorsOfValidIds ==
    [k \in 1..Len(ret.audio_features) |-> ret.audio_features[k]["uri"]]
        = SelectSeq(InputIds, ValidId)

\* The returned table has the rows of the input in their order, each with its
\* id's vector in the feature columns, or with missing values there when its
\* id has no vector.
RowsEnriched ==
    /\ ret.df.cols = ret.input.cols \cup FeatureNames \cup {"uri"}
    /\ Len(ret.df.rows) = Len(ret.input.rows)
    /\ \A i \in 1..Len(ret.input.rows) :
          /\ \A c \in ret.input.cols : ret.df.rows[i][c] = ret.input.rows[i][c]
          /\ IF ValidId(ret.input.rows[i][UriCol])
             THEN \E k \in 1..Len(ret.audio_features) :
                     /\ ret.audio_features[k]["uri"] = ret.input.rows[i][UriCol]
                     /\ \A c \in FeatureNames :
                           ret.df.rows[i][c] = ret.audio_features[k][c]
             ELSE \A c \in FeatureNames : ret.df.rows[i][c] = NaN

-----------------------------------------------------------------------------
(* add_audio_features' loop body run by several script threads *)

(***************************************************************************)
(* Streamlit runs the script of every browser session in a thread of its   *)
(* own, inside one process: np.random, the module-level generator the body *)
(* seeds and draws from, is shared by them. Each call on the generator     *)
(* (seed, uniform) is one step; the threads' steps interleave.             *)
(***************************************************************************)
NWorkers == 2

WorkerIds == 1..NWorkers

\* The track each thread is at: ids of distinct tracks.
WorkerUris == {UriX, UriY, Uri(<<120, 121>>)}

\* Line 72, by thread w.
WorkerSeed(w) ==
    /\ workers[w].pc = "seed"
    /\ np_random' = NpRandomSeed(np_random, SeedOf(workers[w].uri))
    /\ workers' = [workers EXCEPT ![w].pc = "draw"]
    /\ UNCHANGED <<uploaded_files, processed_data, audio_features_added, ret,
                   messages, synth_log>>

\* One of lines 77-83, by thread w: the next np.random.uniform of the dict.
WorkerDraw(w) ==
    /\ workers[w].pc = "draw"
    /\ LET k == Len(workers[w].drawn) + 1
       IN  /\ workers' = [workers EXCEPT
                ![w].drawn = Append(@, Uniform(FeatureRanges[k].low,
                                               FeatureRanges[k].high, np_random)),
                ![w].pc = IF k = Len(FeatureRanges) THEN "done" ELSE "draw"]
           /\ np_random' = Advance(np_random)
    /\ UNCHANGED <<uploaded_files, processed_data, audio_features_added, ret,
                   messages, synth_log>>

InitWorkers ==
    /\ uploaded_files = <<>>
    /\ processed_data = NoDf
    /\ audio_features_added = FALSE
    /\ ret = NoCall
    /\ messages = <<>>
    /\ np_random \in {Generator(s, 0) : s \in OsSeeds}
    /\ synth_log = {}
    /\ workers \in {f \in [WorkerIds -> [uri : WorkerUris, pc : {"seed"}, drawn : {<<>>}]] :
                       \A v, w \in WorkerIds : v # w => f[v].uri # f[w].uri}

NextWorkers == \E w \in WorkerIds : WorkerSeed(w) \/ WorkerDraw(w)

SpecWorkers == InitWorkers /\ [][NextWorkers]_vars

\* The values the body draws for an id when nothing runs between its calls.
SequentialDraws(uri) ==
    [k \in 1..Len(FeatureRanges) |-> Draw(Generator(SeedOf(uri), 0), k)]

\* C5: under any interleaving of threads running the body for distinct ids,
\* every id gets the vector sequential execution gives it.
C5_ParallelEqualsSequential ==
    \A w \in WorkerIds :
        workers[w].pc = "done" => workers[w].drawn = SequentialDraws(workers[w].uri)

-----------------------------------------------------------------------------
(* upload.py: process_files called again on the same sources *)

\* process_files is called a second time on the very file objects of the
\* first call: json.load(file) reads each stream from where the first call
\* left it (process_files never seeks back).
ProcessFilesAgain ==
    /\ ret # NoCall
    /\ ret.call = "process_files"
    /\ LET r == process_files(uploaded_files)
       IN  /\ uploaded_files' = FilesRead(uploaded_files)
           /\ ret' = [call |-> "process_files again", kind |-> r.kind, df |-> r.df,
                      msgs |-> r.msgs, first |-> ret]
           /\ messages' = r.msgs
    /\ UNCHANGED <<processed_data, audio_features_added, np_random, synth_log, workers>>

NextRerun == ProcessFiles \/ ProcessFilesAgain

SpecRerun == InitIngest /\ [][NextRerun]_vars

\* C11: a second process_files on the same sequence of sources returns the
\* same outcome as the first, row for row the same canonical table, also
\* when the sources are streams the first call has read.
C11_SecondCallSameTable ==
    (ret # NoCall /\ ret.call = "process_files again")
    => /\ ret.kind = ret.first.kind
       /\ ret.df = ret.first.df

-----------------------------------------------------------------------------
(* wrapped.py: create_daily_waveform, create_listening_clock,
   analyze_music_profile *)

\* df['date'] = pd.to_datetime(df['ts']).dt.date: the DataFrame passed in
\* gets the column (it is changed in place, no copy is made).
WithDate(df) ==
    [cols |-> df.cols \cup {"date"},
     rows |-> [i \in 1..Len(df.rows) |->
                  [c \in df.cols \cup {"date"} |->
                      IF c = "date" THEN df.rows[i]["ts"].date ELSE df.rows[i][c]]]]

\* Lines 81-84: the number of rows of each date, in ascending order of the date.
DailyCounts(df) ==
    LET dates == SortedSeq({df.rows[i]["date"] : i \in 1..Len(df.rows)})
    IN  [k \in 1..Len(dates) |->
            [date |-> dates[k],
             count |-> Len(SelectSeq(df.rows, LAMBDA r : r["date"] = dates[k]))]]

\* What create_daily_waveform puts in the figure it returns.
create_daily_waveform(df) ==
    [call |-> "create_daily_waveform", daily_counts |-> DailyCounts(df)]

\* Lines 133-134: all_hours.merge(hourly_stats, on='hour', how='left')
\* .fillna(0): one row for each of range(24), in that order, with the minutes
\* of the hour when hourly_stats has it and 0 otherwise.
AllHours(hourly_stats) ==
    [k \in 1..24 |->
        [hour |-> k - 1,
         minutes_played |->
            IF \E i \in 1..Len(hourly_stats) : hourly_stats[i].hour = k - 1
            THEN hourly_stats[CHOOSE i \in 1..Len(hourly_stats) :
                                 hourly_stats[i].hour = k - 1].minutes_played
            ELSE Zero]]

\* What create_listening_clock puts in the figure it returns.
create_listening_clock(df) ==
    [call |-> "create_listening_clock", hourly_stats |-> AllHours(HourlyStats(df))]

\* Series.mean(): the mean of the values that are not missing (nan when
\* there is none).
Mean(rows, col) ==
    LET present == SelectSeq(Column(rows, col), LAMBDA v : v # NaN)
    IN  FDiv(FSum(present), Float(Len(present), 1))

\* Lines 357-364: the columns that are averaged.
ProfileFeatures ==
    {"danceability", "energy", "valence", "speechiness", "acousticness",
     "instrumentalness"}

\* The variant that tests the guard of "Mood Lifter" first.
PersonalityMoodFirst(features) ==
    IF FGt(features["valence"], Float(6, 10)) /\ FGt(features["energy"], Float(5, 10))
    THEN "Mood Lifter"
    ELSE IF FGt(features["energy"], Float(7, 10))
            /\ FGt(features["danceability"], Float(6, 10))
    THEN "Party Starter"
    ELSE IF FGt(features["acousticness"], Float(6, 10))
            /\ FGt(features["instrumentalness"], Float(4, 10))
    THEN "Soul Searcher"
    ELSE IF FGt(features["speechiness"], Float(4, 10))
    THEN "Lyric Lover"
    ELSE "Eclectic Explorer"

\* Lines 366-375.
Personality(features) ==
    IF FGt(features["energy"], Float(7, 10)) /\ FGt(features["danceability"], Float(6, 10))
    THEN "Party Starter"
    ELSE IF FGt(features["acousticness"], Float(6, 10))
            /\ FGt(features["instrumentalness"], Float(4, 10))
    THEN "Soul Searcher"
    ELSE IF FGt(features["valence"], Float(6, 10)) /\ FGt(features["energy"], Float(5, 10))
    THEN "Mood Lifter"
    ELSE IF FGt(features["speechiness"], Float(4, 10))
    THEN "Lyric Lover"
    ELSE "Eclectic Explorer"

\* Lines 377-394: the insights, each named by the condition that adds it.
ProfileInsights(features, personality) ==
    <<personality>>
    \o (IF FGt(features["energy"], Float(7, 10)) THEN <<"high-energy">>
        ELSE IF FGt(Float(4, 10), features["energy"]) THEN <<"laid-back">>
        ELSE <<"balance">>)
    \o (IF FGt(features["danceability"], Float(65, 100))
           /\ FGt(features["valence"], Float(6, 10)) THEN <<"good vibes">>
        ELSE IF FGt(features["danceability"], Float(65, 100))
                /\ FGt(Float(4, 10), features["valence"]) THEN <<"moody twist">>
        ELSE <<>>)
    \o (IF FGt(features["acousticness"], Float(6, 10)) THEN <<"organic sound">>
        ELSE IF FGt(Float(3, 10), features["acousticness"]) THEN <<"electronic">>
        ELSE <<>>)

\* What analyze_music_profile returns; df['danceability'] raises KeyError on a
\* table without the feature columns.
analyze_music_profile(df) ==
    IF ~(ProfileFeatures \subseteq df.cols)
    THEN [call |-> "analyze_music_profile", kind |-> "raised KeyError"]
    ELSE LET features == [c \in ProfileFeatures |-> Mean(df.rows, c)]
             personality == Personality(features)
         IN  [call |-> "analyze_music_profile", kind |-> "returned",
              insights |-> ProfileInsights(features, personality),
              personality |-> personality,
              features |-> features]

\* wrapped.py main, line 636.
CreateDailyWaveform ==
    /\ LET df == WithDate(processed_data)
       IN  /\ processed_data' = df
           /\ ret' = create_daily_waveform(df)
    /\ UNCHANGED <<uploaded_files, audio_features_added, messages, np_random,
                   synth_log, workers>>

\* wrapped.py main, line 646.
CreateListeningClock ==
    /\ LET df == WithHour(processed_data)
       IN  /\ processed_data' = df
           /\ ret' = create_listening_clock(df)
    /\ UNCHANGED <<uploaded_files, audio_features_added, messages, np_random,
                   synth_log, workers>>

\* display_music_profile_analysis (lines 443-445): the profile is analysed
\* when the session's flag is set.
AnalyzeMusicProfile ==
    /\ audio_features_added
    /\ ret' = analyze_music_profile(processed_data)
    /\ UNCHANGED <<uploaded_files, processed_data, audio_features_added, messages,
                   np_random, synth_log, workers>>

\* The session's table and flag when the wrapped page is opened: a table of
\* process_files, "Add Audio Features" having been clicked on it.
WrappedSessions ==
    {add_audio_features(df, FALSE, Generator(<<65536, 1>>, 0)) : df \in TopTables}

InitWrapped ==
    /\ uploaded_files = <<>>
    /\ \E s \in WrappedSessions :
          /\ processed_data = s.df
          /\ audio_features_added = s.flag
    /\ ret = NoCall
    /\ messages = <<>>
    /\ np_random = 0
    /\ synth_log = {}
    /\ workers = <<>>

NextWrapped ==
    \/ CreateDailyWaveform
    \/ CreateListeningClock
    \/ AnalyzeListeningPatterns
    \/ GetTopArtists
    \/ GetTopSongs
    \/ AnalyzeMusicProfile

SpecWrapped == InitWrapped /\ [][NextWrapped]_vars

-----------------------------------------------------------------------------
(* Claims about the analysis calls of the wrapped page *)

\* C12: no aggregation or analysis call changes the table it is given: the
\* session's table has the same columns and rows after the call as before.
C12_AnalysisLeavesTable == [][processed_data' = processed_data]_vars

\* The hourly profile a call has computed: create_listening_clock's
\* hourly_stats (lines 132-134) or analyze_listening_patterns' (line 306).
HourlyProfileComputed ==
    ret # NoCall /\ ret.call \in {"create_listening_clock", "analyze_listening_patterns"}

\* C15: the hourly profile has exactly the 24 buckets 0..23, in each the sum
\* of minutes_played of the events of that hour, 0 for an hour without events.
C15_HourlyProfileHas24Buckets ==
    HourlyProfileComputed
    => /\ Len(ret.hourly_stats) = 24
       /\ \A h \in 0..23 :
             /\ ret.hourly_stats[h + 1].hour = h
             /\ ret.hourly_stats[h + 1].minutes_played = MinutesInHours({h})

-----------------------------------------------------------------------------
(* Claims about the order of get_top_artists and get_top_songs *)

Ranked == ret # NoCall /\ ret.call \in {"get_top_artists", "get_top_songs"}

\* The groups of the session's table for the call that was made.
GroupsRanked ==
    IF ret.call = "get_top_artists"
    THEN {ArtistGroup(processed_data, a) : a \in ArtistKeys(processed_data)}
    ELSE {SongGroup(processed_data, k) : k \in SongKeys(processed_data)}

\* The first row of the table that belongs to group g.
FirstRowOf(g) ==
    CHOOSE i \in 1..Len(processed_data.rows) :
        LET In(k) == /\ processed_data.rows[k][ArtistCol] = g[ArtistCol]
                     /\ ret.call = "get_top_songs"
                        => /\ processed_data.rows[k][TrackCol] = g[TrackCol]
                           /\ processed_data.rows[k][UriCol] = g[UriCol]
        IN  In(i) /\ \A j \in 1..(i - 1) : ~In(j)

\* The place of a name among the names of the model in lexicographic order.
NameRank(v) == IF v \in {Str("Artist A"), Str("Track X"), UriX} THEN 1 ELSE 2

\* The place of group g in the order of the sorted group keys.
KeyRank(g) ==
    IF ret.call = "get_top_artists" THEN NameRank(g[ArtistCol])
    ELSE 4 * NameRank(g[TrackCol]) + 2 * NameRank(g[ArtistCol]) + NameRank(g[UriCol])

TiedPairs ==
    {p \in (1..Len(ret.rows)) \X (1..Len(ret.rows)) :
        p[1] < p[2] /\ ret.rows[p[1]].minutes_played = ret.rows[p[2]].minutes_played}

\* C13: get_top_artists(df, n) and get_top_songs(df, n) return the first
\* min(n, number of groups) rows of the ranking of the groups by summed
\* minutes, descending, and rows with equal minutes come in the stable order
\* of the grouping (the order of the group keys, or that of the groups' first
\* rows in the input).
C13_TopNStableTies ==
    Ranked
    => /\ Len(ret.rows) = Min(ret.n, Cardinality(GroupsRanked))
       /\ \A i \in 1..Len(ret.rows) : ret.rows[i] \in GroupsRanked
       /\ \A i, j \in 1..Len(ret.rows) :
             i < j => /\ ret.rows[i] # ret.rows[j]
                      /\ ~FGt(ret.rows[j].minutes_played, ret.rows[i].minutes_played)
       /\ \A g \in GroupsRanked : \A i \in 1..Len(ret.rows) :
             FGt(g.minutes_played, ret.rows[i].minutes_played)
             => \E j \in 1..(i - 1) : ret.rows[j] = g
       /\ \/ \A p \in TiedPairs : KeyRank(ret.rows[p[1]]) < KeyRank(ret.rows[p[2]])
          \/ \A p \in TiedPairs : FirstRowOf(ret.rows[p[1]]) < FirstRowOf(ret.rows[p[2]])

-----------------------------------------------------------------------------
(* wrapped.py: analyze_music_profile on tables with any feature values *)

MaxProfileRows == 2

\* The values a feature column holds in the tables of the model: values on
\* both sides of the thresholds of lines 366-372.
FeatureLevels ==
    [danceability |-> {Float(5, 10), Float(7, 10)},
     energy |-> {Float(4, 10), Float(6, 10), Float(8, 10)},
     valence |-> {Float(5, 10), Float(7, 10)},
     speechiness |-> {Float(1, 10), Float(5, 10)},
     acousticness |-> {Float(5, 10), Float(7, 10)},
     instrumentalness |-> {Float(3, 10), Float(5, 10)}]

FeatureValues ==
    {[danceability |-> d, energy |-> e, valence |-> v, speechiness |-> s,
      acousticness |-> a, instrumentalness |-> i] :
        d \in FeatureLevels.danceability, e \in FeatureLevels.energy,
        v \in FeatureLevels.valence, s \in FeatureLevels.speechiness,
        a \in FeatureLevels.acousticness, i \in FeatureLevels.instrumentalness}

\* A row of an enriched table: the columns of the canonical table and the
\* feature columns with the values v.
ProfileRow(v) ==
    LET r == CanonicalRow(EvA1)
    IN  [c \in DOMAIN r \cup FeatureNames \cup {"uri"} |->
            IF c \in DOMAIN r THEN r[c]
            ELSE IF c = "uri" THEN UriX
            ELSE IF c = "tempo" THEN Float(120, 1)
            ELSE v[c]]

\* A row whose track has no feature vector: the left merge leaves nan.
NanFeatures == [c \in ProfileFeatures |-> NaN]

\* The rows that follow the first row of a table.
MoreRows ==
    { ProfileRow(NanFeatures),
      ProfileRow([c \in ProfileFeatures |-> Float(8, 10)]),
      ProfileRow([c \in ProfileFeatures |-> Float(2, 10)]) }

ProfileTables ==
    {[cols |-> RawCols \cup {"minutes_played", "uri"} \cup FeatureNames,
      rows |-> <<first>> \o more] :
        first \in {ProfileRow(v) : v \in FeatureValues} \cup {ProfileRow(NanFeatures)},
        more \in SeqsUpTo(MoreRows, MaxProfileRows - 1)}

InitProfile ==
    /\ uploaded_files = <<>>
    /\ processed_data \in ProfileTables
    /\ audio_features_added = TRUE
    /\ ret = NoCall
    /\ messages = <<>>
    /\ np_random = 0
    /\ synth_log = {}
    /\ workers = <<>>

SpecProfile == InitProfile /\ [][AnalyzeMusicProfile]_vars

-----------------------------------------------------------------------------
(* Claims about analyze_music_profile *)

Profiled ==
    ret # NoCall /\ ret.call = "analyze_music_profile" /\ ret.kind = "returned"

\* The rules of the personality decision tree in their order: the label and
\* whether the guard holds for the averaged features f.
RuleLabels ==
    <<"Party Starter", "Soul Searcher", "Mood Lifter", "Lyric Lover", "Eclectic Explorer">>

GuardHolds(k, f) ==
    IF k = 1 THEN FGt(f["energy"], Float(7, 10)) /\ FGt(f["danceability"], Float(6, 10))
    ELSE IF k = 2 THEN FGt(f["acousticness"], Float(6, 10))
                       /\ FGt(f["instrumentalness"], Float(4, 10))
    ELSE IF k = 3 THEN FGt(f["valence"], Float(6, 10)) /\ FGt(f["energy"], Float(5, 10))
    ELSE IF k = 4 THEN FGt(f["speechiness"], Float(4, 10))
    ELSE TRUE

\* C14: the label returned is that of the first rule, in the order 1..5,
\* whose guard holds for the averaged features, one label for every table,
\* also when several guards hold; the features are the averages of the
\* columns (of a table of one row: the row's values).
C14_FirstMatchingRuleWins ==
    Profiled
    => /\ \E k \in 1..5 :
             /\ GuardHolds(k, ret.features)
             /\ \A j \in 1..(k - 1) : ~GuardHolds(j, ret.features)
             /\ ret.personality = RuleLabels[k]
       /\ ret.insights[1] = ret.personality
       /\ Len(processed_data.rows) = 1
          => \A c \in ProfileFeatures : ret.features[c] = processed_data.rows[1][c]

\* Rules 1, 3 and 4 hold at once for the averages of a table of two rows,
\* and the label is that of rule 1.
C14_Witness ==
    /\ Profiled
    /\ Len(processed_data.rows) = 2
    /\ processed_data.rows[1]["energy"] # processed_data.rows[2]["energy"]
    /\ GuardHolds(1, ret.features)
    /\ GuardHolds(3, ret.features)
    /\ GuardHolds(4, ret.features)
    /\ ret.personality = "Party Starter"

-----------------------------------------------------------------------------
(* The session: the user's actions on the upload page and the wrapped page *)

\* What the user can put in the file uploader: one source, or none (the
\* sources are removed).
SessionFiles == {<<>>} \cup {<<f>> : f \in Uploads}

\* load_example_data(): the table of data/StreamingHistory.json.
load_example_data == ExampleTable

\* upload.py main, lines 186-191: the df of a run of the upload page's script
\* (kind "none": df is None; "raised": process_files raised).
SessionDf(files, data) ==
    IF files # <<>> THEN process_files(files)
    ELSE IF data # NoDf THEN [call |-> "none", kind |-> "table", df |-> data, msgs |-> <<>>]
    ELSE [call |-> "none", kind |-> "none", df |-> NoDf, msgs |-> <<>>]

\* The user changes the uploaded sources and the page's script runs
\* (lines 153-157, 186-191); the table made is not stored in the session.
UploadFiles ==
    \E files \in SessionFiles :
        LET r == SessionDf(files, processed_data)
        IN  /\ files # uploaded_files
            /\ uploaded_files' = files
            /\ ret' = r
            /\ messages' = r.msgs
            /\ UNCHANGED <<processed_data, audio_features_added, np_random,
                           synth_log, workers>>

\* "Use Example Data" (lines 177-184): the example table is stored in the
\* session; the flag is left as it is.
UseExampleData ==
    /\ processed_data' = load_example_data
    /\ ret' = [call |-> "load_example_data", kind |-> "table",
               df |-> load_example_data, msgs |-> <<>>]
    /\ messages' = <<>>
    /\ UNCHANGED <<uploaded_files, audio_features_added, np_random, synth_log, workers>>

\* "Add Audio Features" (lines 193, 207-209): shown when the run has a df and
\* the flag is not set; what add_audio_features returns is stored.
ClickAddAudioFeatures ==
    LET d == SessionDf(uploaded_files, processed_data)
    IN  /\ d.kind = "table"
        /\ ~audio_features_added
        /\ LET r == add_audio_features(d.df, audio_features_added, np_random)
           IN  /\ processed_data' = r.df
               /\ audio_features_added' = r.flag
               /\ np_random' = r.np_random
               /\ messages' = r.msgs
               /\ ret' = r
               /\ synth_log' = synth_log \cup
                     {r.audio_features[k] : k \in 1..Len(r.audio_features)}
        /\ UNCHANGED <<uploaded_files, workers>>

\* "Proceed to Spotify Wrapped" (upload.py lines 193, 214-216), then the
\* wrapped page's script (wrapped.py lines 25-30, 636-676): it stops without
\* a table; otherwise the charts add their columns to the session's table
\* and, the flag being set, the profile is computed from the feature columns
\* (create_features_radar, line 664, and analyze_music_profile, line 445,
\* read the same columns).
ProceedToSpotifyWrapped ==
    /\ SessionDf(uploaded_files, processed_data).kind = "table"
    /\ audio_features_added
    /\ IF processed_data = NoDf
       THEN /\ ret' = [call |-> "wrapped", kind |-> "stopped"]
            /\ messages' = <<StError("No data found! Please upload your data first.")>>
            /\ UNCHANGED processed_data
       ELSE /\ processed_data' = WithHour(WithDate(processed_data))
            /\ ret' = analyze_music_profile(processed_data)
            /\ messages' = <<>>
    /\ UNCHANGED <<uploaded_files, audio_features_added, np_random, synth_log, workers>>

NextSession ==
    \/ UploadFiles
    \/ UseExampleData
    \/ ClickAddAudioFeatures
    \/ ProceedToSpotifyWrapped
    \/ UseDifferentData

SpecSession == InitSynth /\ [][NextSession]_vars

-----------------------------------------------------------------------------
(* Claims about the session *)

\* C16: whenever the session's flag audio_features_added is set, the
\* session's processed_data is a table with the feature columns, and the
\* profile analysis of the wrapped page never runs on a table without them.
C16_FlagImpliesFeatureColumns ==
    /\ audio_features_added
       => processed_data # NoDf /\ ProfileFeatures \subseteq processed_data.cols
    /\ (ret # NoCall /\ ret.call = "analyze_music_profile") => ret.kind = "returned"

-----------------------------------------------------------------------------
(* upload.py: the seed of track ids of four bytes and more *)

\* Track ids of three to six bytes: three that end in the same four bytes
\* ("wxyz"), one that differs in its last byte, one of three bytes, and one
\* whose leading bytes are all ones.
SeedUris ==
    { Uri(<<97, 119, 120, 121, 122>>),
      Uri(<<98, 119, 120, 121, 122>>),
      Uri(<<119, 120, 121, 122>>),
      Uri(<<97, 119, 120, 121, 123>>),
      Uri(<<120, 121, 122>>),
      Uri(<<255, 255, 119, 120, 121, 122>>) }

SeedTables ==
    {DataFrame(d) : d \in SeqsUpTo({EventOf(u) : u \in SeedUris}, MaxSynthRows) \ {<<>>}}

InitSeed ==
    /\ uploaded_files = <<>>
    /\ processed_data \in SeedTables
    /\ audio_features_added = FALSE
    /\ ret = NoCall
    /\ messages = <<>>
    /\ np_random \in {Generator(s, 0) : s \in OsSeeds}
    /\ synth_log = {}
    /\ workers = <<>>

SpecSeed == InitSeed /\ [][AddAudioFeatures]_vars

-----------------------------------------------------------------------------
(* Claims about the seed *)

\* The last four bytes of an id as a 32-bit number (its 16-bit halves), an
\* id of fewer bytes being padded with zero bytes in front.
LastFourBytes(b) ==
    LET At(k) == IF Len(b) - k >= 1 THEN b[Len(b) - k] ELSE 0
    IN  <<At(3) * 256 + At(2), At(1) * 256 + At(0)>>

SameLastFour(u, v) ==
    /\ Len(u.b) >= 4 /\ Len(v.b) >= 4
    /\ SubSeq(u.b, Len(u.b) - 3, Len(u.b)) = SubSeq(v.b, Len(v.b) - 3, Len(v.b))

\* C17: the generator is seeded with the number made of the last four bytes
\* of the id's encoding (the big-endian integer modulo 2^32), and two ids of
\* at least four bytes that end in the same four bytes get the same feature
\* vector.
C17_SeedIsLastFourBytes ==
    (Synthesized /\ ret.audio_features # <<>>)
    => /\ np_random.seed =
             LastFourBytes(ret.audio_features[Len(ret.audio_features)]["uri"].b)
       /\ \A i, j \in 1..Len(ret.audio_features) :
             SameLastFour(ret.audio_features[i]["uri"], ret.audio_features[j]["uri"])
             => \A c \in FeatureNames :
                   ret.audio_features[i][c] = ret.audio_features[j][c]

\* Two different ids of five and six bytes that end in the same four bytes
\* got the same vector, and an id with another last byte got another one.
C17_Witness ==
    /\ Synthesized
    /\ Len(ret.audio_features) = 3
    /\ Len(ret.audio_features[1]["uri"].b) = 5
    /\ Len(ret.audio_features[2]["uri"].b) = 6
    /\ SameLastFour(ret.audio_features[1]["uri"], ret.audio_features[2]["uri"])
    /\ \A c \in FeatureNames : ret.audio_features[1][c] = ret.audio_features[2][c]
    /\ \E c \in FeatureNames : ret.audio_features[3][c] # ret.audio_features[1][c]

-----------------------------------------------------------------------------
(* The profile of a table enriched by add_audio_features *)

\* Track ids whose seeds make random_sample() take each of its values in
\* the draw of speechiness, and a missing id.
LabelUris == {Uri(<<b>>) : b \in 112..121} \cup {NoUri}

LabelTables ==
    {DataFrame(d) : d \in SeqsUpTo({EventOf(u) : u \in LabelUris}, MaxProfileRows) \ {<<>>}}

InitLabel ==
    /\ uploaded_files = <<>>
    /\ processed_data \in LabelTables
    /\ audio_features_added = FALSE
    /\ ret = NoCall
    /\ messages = <<>>
    /\ np_random \in {Generator(s, 0) : s \in OsSeeds}
    /\ synth_log = {}
    /\ workers = <<>>

NextLabel == AddAudioFeatures \/ AnalyzeMusicProfile

SpecLabel == InitLabel /\ [][NextLabel]_vars

-----------------------------------------------------------------------------
(* Claims about the labels of synthesized features *)

\* C18: for a table whose feature columns add_audio_features produced, the
\* averaged speechiness is below 0.2 and the label analyze_music_profile
\* returns is never "Lyric Lover": it is one of the other four.
C18_LyricLoverNeverReturned ==
    Profiled
    => /\ IsFinite(ret.features["speechiness"])
       /\ FGt(Float(2, 10), ret.features["speechiness"])
       /\ ~GuardHolds(4, ret.features)
       /\ ret.personality \in {RuleLabels[1], RuleLabels[2], RuleLabels[3], RuleLabels[5]}

\* The profile of a table of a row without id and a track with the highest
\* speechiness a draw gives, 0.02 + 0.18 * (RandomLevels - 1) / RandomLevels.
C18_Witness ==
    /\ Profiled
    /\ \E i, j \in 1..Len(processed_data.rows) :
          /\ processed_data.rows[i]["speechiness"] = NaN
          /\ processed_data.rows[j]["speechiness"] =
                FAdd(Float(2, 100),
                     FMul(Float(18, 100), Float(RandomLevels - 1, RandomLevels)))
    /\ ret.features["speechiness"] =
          FAdd(Float(2, 100), FMul(Float(18, 100), Float(RandomLevels - 1, RandomLevels)))

=============================================================================
